---- MODULE Spec2Model ----
(***************************************************************************)
(* prview: list the author's pull requests, rank them, write one preview   *)
(* file per pull request and let an external selector (fzf) pick one.      *)
(* Model of src/src/main.rs.                                               *)
(*                                                                         *)
(* Strings are sequences of tokens.  A token is a TLA+ string that stands  *)
(* for one character or for a run of characters that holds neither a tab   *)
(* nor a line feed; TAB and NL are tokens of their own, so that splitting  *)
(* and trimming are computed on the text and not assumed.                  *)
(***************************************************************************)
EXTENDS Integers, Sequences, FiniteSets, TLC

VARIABLES
    pc,          \* position of main
    args,        \* Args: [all, author, no_preview]
    token_set,   \* GITHUB_TOKEN is present in the environment
    author,      \* main's `author`
    repo_info,   \* main's `repo_info`: <<owner, repo>>
    search_query,\* the GraphQL searchQuery variable sent by fetch_pull_requests
    fetch_result,\* what fetch_pull_requests returned: None, "Ok" or "Err"
    all_prs,     \* main's `all_prs`
    temp_dir,    \* the TempDir: "none", "exists" or "removed"
    files,       \* the files of the TempDir: path -> content
    pr_map,      \* main's `pr_map`: sequence of <<path, pr>>
    fzf_lines,   \* main's `fzf_lines`
    i,           \* the loop position of `for pr in &all_prs`
    input_file,  \* the NamedTempFile: [state, content]
    fzf_runs,    \* how many times the selector command was run
    output,      \* the selector's result: [status, stdout]
    stdout,      \* what main printed
    exit_code,   \* the process's exit: "running", "ok" or "error"
    selected_pr, \* the record the lookup resolved to, or None
    rt_diff,     \* get_relative_time: now - date, in seconds
    rt_label     \* get_relative_time: the returned label

vars == <<pc, args, token_set, author, repo_info, search_query,
          fetch_result, all_prs,
          temp_dir, files, pr_map, fzf_lines, i, input_file, fzf_runs,
          output, stdout, exit_code, selected_pr, rt_diff, rt_label>>

pipeline_vars == <<pc, args, token_set, author, repo_info, search_query,
                   fetch_result, all_prs, temp_dir, files, pr_map, fzf_lines, i,
                   input_file, fzf_runs, output, stdout, exit_code,
                   selected_pr>>

----------------------------------------------------------------------------
(* Bounds *)

MaxPRs == 2        \* longest fetch response
MaxWeeks == 2      \* largest elapsed time given to get_relative_time, in weeks

----------------------------------------------------------------------------
(* Text *)

TAB == "\t"
NL == "\n"
\* Option<T>: a sequence of no element or of one
None == <<>>
Some(x) == <<x>>

RECURSIVE Join(_, _)
\* [String]::join(sep)
Join(lines, sep) ==
    IF lines = <<>> THEN <<>>
    ELSE IF Len(lines) = 1 THEN Head(lines)
    ELSE Head(lines) \o <<sep>> \o Join(Tail(lines), sep)

RECURSIVE Split(_, _)
\* str::split(sep): the pieces between the separators, at least one
Split(s, sep) ==
    IF \A k \in 1..Len(s) : s[k] # sep THEN <<s>>
    ELSE LET k == CHOOSE k \in 1..Len(s) :
                      s[k] = sep /\ \A j \in 1..(k - 1) : s[j] # sep
         IN <<SubSeq(s, 1, k - 1)>> \o Split(SubSeq(s, k + 1, Len(s)), sep)

IsWhite(c) == c \in {TAB, NL, " "}

RECURSIVE TrimStart(_)
TrimStart(s) ==
    IF s # <<>> /\ IsWhite(Head(s)) THEN TrimStart(Tail(s)) ELSE s

RECURSIVE TrimEnd(_)
TrimEnd(s) ==
    IF s # <<>> /\ IsWhite(s[Len(s)]) THEN TrimEnd(SubSeq(s, 1, Len(s) - 1))
    ELSE s

\* str::trim
Trim(s) == TrimEnd(TrimStart(s))

\* str::replace(from, to) for one-character patterns
Replace(s, from, to) == [k \in 1..Len(s) |-> IF s[k] = from THEN to ELSE s[k]]

----------------------------------------------------------------------------
(* get_relative_time *)

SecondsPerMinute == 60
SecondsPerHour == 3600
SecondsPerDay == 86400

\* Rust's integer division, which truncates toward zero
TruncDiv(a, b) == IF a >= 0 THEN a \div b ELSE -((-a) \div b)

\* if n == 1 { "" } else { "s" }
Plural(n) == IF n = 1 THEN "" ELSE "s"

\* format!("{} unit{} ago", n, plural)
Label(n, unit) == <<ToString(n), " ", unit \o Plural(n), " ", "ago">>

\* the day branch also takes the seventh day
get_relative_time_week_late(diff) ==
    LET diff_mins == TruncDiv(diff, SecondsPerMinute)
        diff_hours == TruncDiv(diff, SecondsPerHour)
        diff_days == TruncDiv(diff, SecondsPerDay)
        diff_weeks == TruncDiv(diff_days, 7)
    IN IF diff_days < 1
       THEN IF diff_hours < 1
            THEN Label(diff_mins, "minute")
            ELSE Label(diff_hours, "hour")
       ELSE IF diff_days <= 7
            THEN Label(diff_days, "day")
            ELSE Label(diff_weeks, "week")

get_relative_time(diff) ==
    LET diff_mins == TruncDiv(diff, SecondsPerMinute)
        diff_hours == TruncDiv(diff, SecondsPerHour)
        diff_days == TruncDiv(diff, SecondsPerDay)
        diff_weeks == TruncDiv(diff_days, 7)
    IN IF diff_days < 1
       THEN IF diff_hours < 1
            THEN Label(diff_mins, "minute")
            ELSE Label(diff_hours, "hour")
       ELSE IF diff_days < 7
            THEN Label(diff_days, "day")
            ELSE Label(diff_weeks, "week")

----------------------------------------------------------------------------
(* PullRequest *)

\* struct PullRequest.  `id` is the identity of the object (its place in the
\* fetch response): pr_map holds references, and two records may have equal
\* fields.  created_at is never read and is left out.
PullRequest(id, number, title, body, updated_at, repository_name, state, is_draft, merged) ==
    [id |-> id, number |-> number, title |-> title,
     html_url |-> <<"https://github.com/">> \o repository_name
                      \o <<"/pull/", ToString(number)>>,
     body |-> body, updated_at |-> updated_at,
     repository_name |-> repository_name, state |-> state,
     is_draft |-> is_draft, merged |-> merged]

get_status_priority(pr) ==
    IF pr.is_draft \/ (pr.state = "OPEN" /\ ~pr.is_draft) THEN 0
    ELSE IF pr.merged THEN 1
    ELSE 2

\* the status main displays for a record (status_colored, without the colour)
status_label(pr) ==
    IF pr.merged THEN "MERGED"
    ELSE IF pr.state = "CLOSED" THEN "CLOSED"
    ELSE IF pr.is_draft THEN "DRAFT"
    ELSE "OPEN"

\* colored's ANSI wrappers: an escape sequence, the text, the reset sequence
purple(s) == <<"\\e[35m">> \o s \o <<"\\e[0m">>
red(s) == <<"\\e[31m">> \o s \o <<"\\e[0m">>
dimmed(s) == <<"\\e[2m">> \o s \o <<"\\e[0m">>
green(s) == <<"\\e[32m">> \o s \o <<"\\e[0m">>
blue(s) == <<"\\e[34m">> \o s \o <<"\\e[0m">>

status_colored(pr) ==
    IF pr.merged THEN purple(<<"MERGED">>)
    ELSE IF pr.state = "CLOSED" THEN red(<<"CLOSED">>)
    ELSE IF pr.is_draft THEN dimmed(<<"DRAFT">>)
    ELSE green(<<"OPEN">>)

----------------------------------------------------------------------------
(* Ranking *)

Less == "Less"
Equal == "Equal"
Greater == "Greater"

\* Ord::cmp on integers
Cmp(x, y) == IF x < y THEN Less ELSE IF x = y THEN Equal ELSE Greater

\* the status priority decides first and the date breaks ties
compare_prs_status_first(a, b) ==
    LET status_cmp == Cmp(get_status_priority(a), get_status_priority(b))
    IN IF status_cmp = Equal
       THEN Cmp(b.updated_at, a.updated_at)
       ELSE status_cmp

\* the closure given to all_prs.sort_by
compare_prs(a, b) ==
    LET date_cmp == Cmp(b.updated_at, a.updated_at)
    IN IF date_cmp = Equal
       THEN Cmp(get_status_priority(a), get_status_priority(b))
       ELSE date_cmp

RECURSIVE InsertSorted(_, _)
\* x goes before the first element it is Less than, after its equals
InsertSorted(x, s) ==
    IF s = <<>> THEN <<x>>
    ELSE IF compare_prs(x, Head(s)) = Less THEN <<x>> \o s
    ELSE <<Head(s)>> \o InsertSorted(x, Tail(s))

RECURSIVE sort_by(_)
\* slice::sort_by: a stable sort by compare_prs
sort_by(s) ==
    IF s = <<>> THEN <<>>
    ELSE InsertSorted(s[Len(s)], sort_by(SubSeq(s, 1, Len(s) - 1)))

----------------------------------------------------------------------------
(* Preview artifacts and selector lines *)

TempDirPath == <<"/tmp/.tmpAbCdEf">>

safe_repo_name(pr) == Replace(pr.repository_name, "/", "_")

file_name(pr) == safe_repo_name(pr) \o <<"_", ToString(pr.number), ".md">>

\* temp_dir.path().join(&file_name)
file_path(pr) == TempDirPath \o <<"/">> \o file_name(pr)

\* the content written for a record: its body, or nothing when it has none
file_content(pr) == IF pr.body = None THEN <<>> ELSE pr.body[1]

fzf_line(pr, relative_time, all) ==
    IF all
    THEN file_path(pr) \o <<TAB>> \o relative_time \o <<TAB>>
             \o status_colored(pr) \o <<TAB>> \o blue(pr.title) \o <<TAB>>
             \o pr.repository_name
    ELSE file_path(pr) \o <<TAB>> \o relative_time \o <<TAB>>
             \o status_colored(pr) \o <<TAB>> \o blue(pr.title)

\* pr_map.iter().find(|(path, _)| path == preview_file_path)
find_pr(map, path) ==
    IF \E k \in 1..Len(map) : map[k][1] = path
    THEN LET k == CHOOSE k \in 1..Len(map) :
                      map[k][1] = path /\ \A j \in 1..(k - 1) : map[j][1] # path
         IN Some(map[k][2])
    ELSE None

\* selected.trim().split('\t') ... selected_fields[0]
preview_file_path(selected) == Split(Trim(selected), TAB)[1]

----------------------------------------------------------------------------
(* The environment: command lines, the local checkout, the remote service *)

ArgsSet == [all : BOOLEAN, author : {None, Some(<<"bob">>)}, no_preview : BOOLEAN]

\* what the local checkout looks like to get_current_repo_info
Checkouts ==
    { [repo |-> FALSE, origin |-> FALSE, url |-> None],
      [repo |-> TRUE, origin |-> FALSE, url |-> None],
      [repo |-> TRUE, origin |-> TRUE,
       url |-> Some(<<"git@", "github.com:", "o", "/", "r", ".git">>)],
      [repo |-> TRUE, origin |-> TRUE,
       url |-> Some(<<"https://", "github.com/", "o", "/", "r">>)],
      [repo |-> TRUE, origin |-> TRUE,
       url |-> Some(<<"https://", "gitlab.com/", "o", "/", "r", ".git">>)],
      [repo |-> TRUE, origin |-> TRUE, url |-> Some(<<"git@", "github.com:", "o">>)],
      [repo |-> TRUE, origin |-> TRUE, url |-> None] }

\* the instants Utc::now() may return while the lines are built, in seconds
Clock == {90000}

\* the responses of at most n records, the k-th drawn from pool[k]
RECURSIVE ResponsesOf(_, _)
ResponsesOf(pool, n) ==
    IF n = 0 THEN {<<>>}
    ELSE LET shorter == ResponsesOf(pool, n - 1)
         IN shorter \cup
            {Append(r, pr) : r \in {q \in shorter : Len(q) = n - 1},
                             pr \in pool[n]}

Repo == <<"o", "/", "r">>

\* responses that differ in what ranking reads
Instants == {0, 60}
Flags == [state : {"OPEN", "CLOSED", "MERGED"}, is_draft : BOOLEAN,
          merged : BOOLEAN]
RankPool ==
    [k \in 1..MaxPRs |->
    {PullRequest(k, k, <<"t">>, None, t, Repo, f.state, f.is_draft, f.merged) :
        t \in Instants, f \in Flags}]
RankResponses == ResponsesOf(RankPool, MaxPRs)

\* the flags as the service reports them: merged exactly when the state is
\* MERGED, and a draft is open or closed
ServiceFlags ==
    {f \in Flags : /\ f.merged <=> f.state = "MERGED"
                   /\ f.is_draft => f.state # "MERGED"}
ServicePool ==
    [k \in 1..MaxPRs |->
    {PullRequest(k, k, <<"t">>, None, t, Repo, f.state, f.is_draft, f.merged) :
        t \in Instants, f \in ServiceFlags}]
ServiceResponses == ResponsesOf(ServicePool, MaxPRs)

\* responses that differ in what the artifact path reads
RepoNames == {<<"a", "/", "b">>, <<"a", "/", "b", "_", "c">>,
              <<"a", "_", "b", "/", "c">>}
Numbers == {1, 2}
Bodies == {None, Some(<<"body">>)}
PathPool ==
    [k \in 1..MaxPRs |->
    {PullRequest(k, n, <<"t", ToString(k)>>, b, 0, r, "OPEN", FALSE, FALSE) :
        n \in Numbers, r \in RepoNames, b \in Bodies}]
\* a response holds a pull request once
PathResponses ==
    {r \in ResponsesOf(PathPool, MaxPRs) :
        \A j, k \in 1..Len(r) :
            j # k => \/ r[j].repository_name # r[k].repository_name
                     \/ r[j].number # r[k].number}

\* responses that differ in what a selector line reads
Titles == {<<"t">>, <<"t", " ", "u">>, <<"t", TAB, "u">>, <<"t", NL, "u">>,
           <<"t", TAB>>}
FramePool ==
    [k \in 1..MaxPRs |->
    {PullRequest(k, k, t, None, 0, r, "OPEN", FALSE, FALSE) :
        t \in Titles, r \in {Repo, <<"o", "/", "s">>}}]
FrameResponses == ResponsesOf(FramePool, MaxPRs)

----------------------------------------------------------------------------
(* get_current_repo_info *)

Contains(s, tok) == \E k \in 1..Len(s) : s[k] = tok

RECURSIVE TrimEndMatches(_, _)
\* str::trim_end_matches(suffix)
TrimEndMatches(s, suffix) ==
    IF s # <<>> /\ s[Len(s)] = suffix
    THEN TrimEndMatches(SubSeq(s, 1, Len(s) - 1), suffix)
    ELSE s

RepoNone == [kind |-> "None"]
RepoErr(msg) == [kind |-> "Err", msg |-> msg]
RepoSome(owner, repo) == [kind |-> "Some", owner |-> owner, repo |-> repo]

\* the owner/repo split of the path that follows the host in the remote URL
parse_repo_path(url, host) ==
    LET repo_path == TrimEndMatches(Split(url, host)[2], ".git")
        parts == Split(repo_path, "/")
    IN IF Len(parts) >= 2 THEN RepoSome(parts[1], parts[2])
       ELSE RepoErr("Invalid GitHub repository format")

get_current_repo_info(checkout) ==
    IF ~checkout.repo THEN RepoNone
    ELSE IF ~checkout.origin THEN RepoErr("No 'origin' remote found")
    ELSE IF checkout.url = None THEN RepoErr("No URL found for origin remote")
    ELSE IF Contains(checkout.url[1], "github.com:")
         THEN parse_repo_path(checkout.url[1], "github.com:")
    ELSE IF Contains(checkout.url[1], "github.com/")
         THEN parse_repo_path(checkout.url[1], "github.com/")
    ELSE RepoErr("Not a GitHub repository URL")

----------------------------------------------------------------------------
(* main *)

NoFile == [state |-> "none", content |-> <<>>]

InitPipeline(Arguments) ==
    /\ pc = "start"
    /\ args \in Arguments
    /\ token_set \in BOOLEAN
    /\ author = <<>>
    /\ repo_info = <<>>
    /\ search_query = <<>>
    /\ fetch_result = <<>>
    /\ all_prs = <<>>
    /\ temp_dir = "none"
    /\ files = {}
    /\ pr_map = <<>>
    /\ fzf_lines = <<>>
    /\ i = 0
    /\ input_file = NoFile
    /\ fzf_runs = 0
    /\ output = None
    /\ stdout = <<>>
    /\ exit_code = "running"
    /\ selected_pr = None

\* the directory is kept (as after TempDir::into_path or process::exit)
KeepTempDir(dir) == dir

\* dropping the TempDir removes the directory and what is in it
DropTempDir(dir) == IF dir = "exists" THEN "removed" ELSE dir

\* dropping the NamedTempFile removes the file
DropInputFile(f) == IF f.state = "exists" THEN [f EXCEPT !.state = "removed"] ELSE f

\* main returns: its locals are dropped and the process exits
Return(code) ==
    /\ pc' = "done"
    /\ exit_code' = code
    /\ temp_dir' = DropTempDir(temp_dir)
    /\ files' = IF DropTempDir(temp_dir) = "exists" THEN files ELSE {}
    /\ input_file' = DropInputFile(input_file)

\* env::var("GITHUB_TOKEN").context(..)?
ReadToken ==
    /\ pc = "start"
    /\ token_set
    /\ pc' = "author"
    /\ UNCHANGED <<fetch_result, args, token_set, author, repo_info, search_query, all_prs,
                   temp_dir, files, pr_map, fzf_lines, i, input_file,
                   fzf_runs, output, stdout, exit_code, selected_pr, rt_diff,
                   rt_label>>

MissingToken ==
    /\ pc = "start"
    /\ ~token_set
    /\ Return("error")
    /\ UNCHANGED <<fetch_result, args, token_set, author, repo_info, search_query, all_prs,
                   pr_map, fzf_lines, i, fzf_runs, output, stdout, selected_pr, rt_diff,
                   rt_label>>

\* let author = if let Some(author) = args.author { author } else { GET /user }
AuthorFromArgs ==
    /\ pc = "author"
    /\ args.author # None
    /\ author' = args.author[1]
    /\ pc' = "repo"
    /\ UNCHANGED <<fetch_result, args, token_set, repo_info, search_query, all_prs,
                   temp_dir, files, pr_map, fzf_lines, i, input_file,
                   fzf_runs, output, stdout, exit_code, selected_pr, rt_diff,
                   rt_label>>

AuthorFromLogin ==
    /\ pc = "author"
    /\ args.author = None
    /\ author' = <<"alice">>
    /\ pc' = "repo"
    /\ UNCHANGED <<fetch_result, args, token_set, repo_info, search_query, all_prs,
                   temp_dir, files, pr_map, fzf_lines, i, input_file,
                   fzf_runs, output, stdout, exit_code, selected_pr, rt_diff,
                   rt_label>>

\* the request fails, or the answer has no "login" string
AuthorLookupFails ==
    /\ pc = "author"
    /\ args.author = None
    /\ Return("error")
    /\ UNCHANGED <<fetch_result, args, token_set, author, repo_info, search_query, all_prs,
                   pr_map, fzf_lines, i, fzf_runs, output, stdout, selected_pr, rt_diff,
                   rt_label>>

\* let repo_info = get_current_repo_info()?.context(..)?
ResolveRepo ==
    /\ pc = "repo"
    /\ \E checkout \in Checkouts :
          /\ get_current_repo_info(checkout).kind = "Some"
          /\ repo_info' = <<get_current_repo_info(checkout).owner,
                            get_current_repo_info(checkout).repo>>
    /\ pc' = "fetch"
    /\ UNCHANGED <<fetch_result, args, token_set, author, search_query, all_prs,
                   temp_dir, files, pr_map, fzf_lines, i, input_file,
                   fzf_runs, output, stdout, exit_code, selected_pr, rt_diff,
                   rt_label>>

ResolveRepoFails ==
    /\ pc = "repo"
    /\ \E checkout \in Checkouts :
          get_current_repo_info(checkout).kind \in {"None", "Err"}
    /\ Return("error")
    /\ UNCHANGED <<fetch_result, args, token_set, author, repo_info, search_query, all_prs,
                   pr_map, fzf_lines, i, fzf_runs, output, stdout, selected_pr, rt_diff,
                   rt_label>>

\* format!("type:pr repo:{}/{} author:{}", owner, repo, author)
search_query_for(owner, repo, who) ==
    <<"type:pr", " ", "repo:">> \o owner \o <<"/">> \o repo
        \o <<" ", "author:">> \o who

\* fetch_pull_requests(..).await? answers with a list of records
Fetch(Responses) ==
    /\ pc = "fetch"
    /\ search_query' = search_query_for(repo_info[1], repo_info[2], author)
    /\ all_prs' \in Responses
    /\ fetch_result' = "Ok"
    /\ pc' = "fetched"
    /\ UNCHANGED <<args, token_set, author, repo_info, temp_dir, files,
                   pr_map, fzf_lines, i, input_file, fzf_runs, output,
                   stdout, exit_code, selected_pr, rt_diff,
                   rt_label>>

\* the request fails, the answer carries "errors", or a node lacks a field
FetchFails ==
    /\ pc = "fetch"
    /\ search_query' = search_query_for(repo_info[1], repo_info[2], author)
    /\ fetch_result' = "Err"
    /\ Return("error")
    /\ UNCHANGED <<args, token_set, author, repo_info, all_prs, pr_map,
                   fzf_lines, i, fzf_runs, output, stdout, selected_pr, rt_diff,
                   rt_label>>

\* the message is printed but main does not return
ReportEmptyAndGoOn ==
    /\ pc = "fetched"
    /\ all_prs = <<>>
    /\ stdout' = Append(stdout, <<"No pull requests found.">>)
    /\ pc' = "temp_dir"
    /\ UNCHANGED <<fetch_result, args, token_set, author, repo_info,
                   search_query, all_prs, temp_dir, files, pr_map, fzf_lines,
                   i, input_file, fzf_runs, output, exit_code, selected_pr,
                   rt_diff, rt_label>>

\* if all_prs.is_empty() { println!(..); return Ok(()) }
ReportEmpty ==
    /\ pc = "fetched"
    /\ all_prs = <<>>
    /\ stdout' = Append(stdout, <<"No pull requests found.">>)
    /\ Return("ok")
    /\ UNCHANGED <<fetch_result, args, token_set, author, repo_info, search_query, all_prs,
                   pr_map, fzf_lines, i, fzf_runs, output, selected_pr, rt_diff,
                   rt_label>>

\* all_prs.sort_by(..)
Sort ==
    /\ pc = "fetched"
    /\ all_prs # <<>>
    /\ all_prs' = sort_by(all_prs)
    /\ pc' = "temp_dir"
    /\ UNCHANGED <<fetch_result, args, token_set, author, repo_info, search_query,
                   temp_dir, files, pr_map, fzf_lines, i, input_file,
                   fzf_runs, output, stdout, exit_code, selected_pr, rt_diff,
                   rt_label>>

\* let temp_dir = TempDir::new()?
CreateTempDir ==
    /\ pc = "temp_dir"
    /\ temp_dir' = "exists"
    /\ i' = 1
    /\ pc' = "loop"
    /\ UNCHANGED <<fetch_result, args, token_set, author, repo_info, search_query, all_prs,
                   files, pr_map, fzf_lines, input_file, fzf_runs, output,
                   stdout, exit_code, selected_pr, rt_diff,
                   rt_label>>

CreateTempDirFails ==
    /\ pc = "temp_dir"
    /\ Return("error")
    /\ UNCHANGED <<fetch_result, args, token_set, author, repo_info, search_query, all_prs,
                   pr_map, fzf_lines, i, fzf_runs, output, stdout, selected_pr, rt_diff,
                   rt_label>>

\* fs::write(&file_path, ..): the file at the path now holds the content
fs_write(dir, path, content) ==
    {f \in dir : f.path # path} \cup {[path |-> path, content |-> content]}

\* one turn of `for pr in &all_prs`
MaterializeOne ==
    /\ pc = "loop"
    /\ i <= Len(all_prs)
    /\ \E now \in Clock :
          LET pr == all_prs[i]
              relative_time == get_relative_time(now - pr.updated_at)
          IN /\ files' = fs_write(files, file_path(pr), file_content(pr))
             /\ pr_map' = Append(pr_map, <<file_path(pr), pr>>)
             /\ fzf_lines' = Append(fzf_lines,
                                    fzf_line(pr, relative_time, args.all))
    /\ i' = i + 1
    /\ UNCHANGED <<fetch_result, pc, args, token_set, author, repo_info, search_query,
                   all_prs, temp_dir, input_file, fzf_runs, output, stdout,
                   exit_code, selected_pr, rt_diff,
                   rt_label>>

\* fs::write(..)? fails
MaterializeFails ==
    /\ pc = "loop"
    /\ i <= Len(all_prs)
    /\ Return("error")
    /\ UNCHANGED <<fetch_result, args, token_set, author, repo_info, search_query, all_prs,
                   pr_map, fzf_lines, i, fzf_runs, output, stdout, selected_pr, rt_diff,
                   rt_label>>

\* let mut input_file = tempfile::NamedTempFile::new()?
CreateInputFile ==
    /\ pc = "loop"
    /\ i > Len(all_prs)
    /\ input_file' = [state |-> "exists", content |-> <<>>]
    /\ pc' = "write_input"
    /\ UNCHANGED <<fetch_result, args, token_set, author, repo_info, search_query, all_prs,
                   temp_dir, files, pr_map, fzf_lines, i, fzf_runs, output,
                   stdout, exit_code, selected_pr, rt_diff,
                   rt_label>>

CreateInputFileFails ==
    /\ pc = "loop"
    /\ i > Len(all_prs)
    /\ Return("error")
    /\ UNCHANGED <<fetch_result, args, token_set, author, repo_info, search_query, all_prs,
                   pr_map, fzf_lines, i, fzf_runs, output, stdout, selected_pr, rt_diff,
                   rt_label>>

\* write!(input_file, "{}", fzf_lines.join("\n"))?
WriteInputFile ==
    /\ pc = "write_input"
    /\ input_file' = [input_file EXCEPT !.content = Join(fzf_lines, NL)]
    /\ pc' = "run"
    /\ UNCHANGED <<fetch_result, args, token_set, author, repo_info, search_query, all_prs,
                   temp_dir, files, pr_map, fzf_lines, i, fzf_runs, output,
                   stdout, exit_code, selected_pr, rt_diff,
                   rt_label>>

WriteInputFileFails ==
    /\ pc = "write_input"
    /\ Return("error")
    /\ UNCHANGED <<fetch_result, args, token_set, author, repo_info, search_query, all_prs,
                   pr_map, fzf_lines, i, fzf_runs, output, stdout, selected_pr, rt_diff,
                   rt_label>>

\* a byte sequence that is not UTF-8
BadBytes == <<"\\xff">>

\* what the selector may print: nothing, one of the lines it was given (a
\* line of the input file, or a whole protocol line), a line it was not
\* given, or bytes that are not text
SelectorOutputs ==
    {<<>>, BadBytes, <<"/elsewhere/x.md", TAB, "x", NL>>}
        \cup {fzf_lines[k] \o <<NL>> : k \in 1..Len(fzf_lines)}
        \cup {Split(input_file.content, NL)[k] \o <<NL>> :
                 k \in 1..Len(Split(input_file.content, NL))}

\* fzf's exit statuses: selected, no match, error, interrupted; fzf prints a
\* line only when it exits with 0, and main never reads the status
ExitStatuses == {0, 1, 2, 130}

\* duct::cmd!("sh", "-c", &fzf_cmd).stdin_null().stdout_capture().unchecked().run()?
RunSelector ==
    /\ pc = "run"
    /\ fzf_runs' = fzf_runs + 1
    /\ \E out \in SelectorOutputs, status \in ExitStatuses :
          /\ (status # 0 => out = <<>>)
          /\ output' = Some([status |-> status, stdout |-> out])
    /\ pc' = "result"
    /\ UNCHANGED <<fetch_result, args, token_set, author, repo_info, search_query, all_prs,
                   temp_dir, files, pr_map, fzf_lines, i, input_file, stdout,
                   exit_code, selected_pr, rt_diff,
                   rt_label>>

\* sh cannot be started
RunSelectorFails ==
    /\ pc = "run"
    /\ fzf_runs' = fzf_runs + 1
    /\ Return("error")
    /\ UNCHANGED <<fetch_result, args, token_set, author, repo_info, search_query, all_prs,
                   pr_map, fzf_lines, i, output, stdout, selected_pr, rt_diff,
                   rt_label>>

\* else { println!("No PR selected.") }
NoSelection ==
    /\ pc = "result"
    /\ output[1].stdout = <<>>
    /\ stdout' = Append(stdout, <<"No PR selected.">>)
    /\ Return("ok")
    /\ UNCHANGED <<fetch_result, args, token_set, author, repo_info, search_query, all_prs,
                   pr_map, fzf_lines, i, fzf_runs, output, selected_pr, rt_diff,
                   rt_label>>

\* String::from_utf8(output[1].stdout)? fails
DecodeFails ==
    /\ pc = "result"
    /\ output[1].stdout # <<>>
    /\ Contains(output[1].stdout, BadBytes[1])
    /\ Return("error")
    /\ UNCHANGED <<fetch_result, args, token_set, author, repo_info, search_query, all_prs,
                   pr_map, fzf_lines, i, fzf_runs, output, stdout, selected_pr, rt_diff,
                   rt_label>>

\* if let Some((_, pr)) = pr_map.iter().find(..) { println!(..) }
Lookup ==
    /\ pc = "result"
    /\ output[1].stdout # <<>>
    /\ ~Contains(output[1].stdout, BadBytes[1])
    /\ LET found == find_pr(pr_map, preview_file_path(output[1].stdout))
       IN /\ selected_pr' = found
          /\ stdout' = IF found = None THEN stdout
                       ELSE stdout \o <<<<NL, "Selected PR:">>,
                                      <<"Title: ">> \o found[1].title,
                                      <<"URL  : ">> \o found[1].html_url>>
    /\ Return("ok")
    /\ UNCHANGED <<fetch_result, args, token_set, author, repo_info, search_query, all_prs,
                   pr_map, fzf_lines, i, fzf_runs, output, rt_diff, rt_label>>

----------------------------------------------------------------------------
(* Specifications *)

\* every step of main but the fetch
Pipeline ==
    \/ ReadToken \/ MissingToken
    \/ AuthorFromArgs \/ AuthorFromLogin \/ AuthorLookupFails
    \/ ResolveRepo \/ ResolveRepoFails
    \/ FetchFails
    \/ ReportEmpty \/ Sort
    \/ CreateTempDir \/ CreateTempDirFails
    \/ MaterializeOne \/ MaterializeFails
    \/ CreateInputFile \/ CreateInputFileFails
    \/ WriteInputFile \/ WriteInputFileFails
    \/ RunSelector \/ RunSelectorFails
    \/ NoSelection \/ DecodeFails \/ Lookup

InitIdleTime == rt_diff = 0 /\ rt_label = <<>>

\* runs over responses that differ in repository name, number and body
Init == InitPipeline(ArgsSet) /\ InitIdleTime
FetchPaths == Fetch(PathResponses)
Next == Pipeline \/ FetchPaths
Spec == Init /\ [][Next]_vars

----------------------------------------------------------------------------
(* Selection and artifact paths (Spec) *)

\* the records whose artifact path is `path`
RecordsAt(path) == {k \in 1..Len(pr_map) : pr_map[k][1] = path}

Printed(pr) ==
    <<<<NL, "Selected PR:">>, <<"Title: ">> \o pr.title,
      <<"URL  : ">> \o pr.html_url>>

\* the selector has returned and main has handled what it printed
Handled == pc = "done" /\ output # None

\* C3: when the selector returns exactly the line emitted for a record, the
\* lookup by the line's first field resolves to that record and main prints
\* that record's title and URL.
C3_SelectionRoundTrip ==
    \A k \in 1..Len(fzf_lines) :
        (Handled /\ output[1].stdout = fzf_lines[k] \o <<NL>>)
            => /\ selected_pr = Some(pr_map[k][2])
               /\ stdout = Printed(pr_map[k][2])

\* C4: two records that differ in repository_name or in number have
\* different artifact paths, and while the directory exists the file at a
\* record's path holds that record's body.
C4_ArtifactPathsUnique ==
    /\ \A j, k \in 1..Len(pr_map) :
          (\/ pr_map[j][2].repository_name # pr_map[k][2].repository_name
           \/ pr_map[j][2].number # pr_map[k][2].number)
              => pr_map[j][1] # pr_map[k][1]
    /\ temp_dir = "exists" =>
          \A k \in 1..Len(pr_map) :
              [path |-> pr_map[k][1],
               content |-> file_content(pr_map[k][2])] \in files

\* the selector's text does not identify exactly one record
IdentifiesNoRecord ==
    \/ output[1].stdout = <<>>
    \/ Cardinality(RecordsAt(preview_file_path(output[1].stdout))) # 1

\* C5: once the selector has returned text that does not identify exactly
\* one record, the run prints "No PR selected.", no title or URL, and exits
\* successfully.
C5_NoSelectionOutcome ==
    (/\ Handled
     /\ ~Contains(output[1].stdout, BadBytes[1])
     /\ IdentifiesNoRecord)
        => /\ stdout = <<<<"No PR selected.">>>>
           /\ exit_code = "ok"

\* the run was aborted because the local repository could not be resolved
ScopeResolutionAborted ==
    pc = "done" /\ exit_code = "error" /\ author # <<>> /\ repo_info = <<>>

\* C6: with --all the query is not restricted to one repository, and a
\* failure to resolve the local repository does not abort the run.
C6_AllScope ==
    args.all => /\ ~Contains(search_query, "repo:")
                /\ ~ScopeResolutionAborted

\* every record's artifact was written
ArtifactsWritten == Len(pr_map) = Len(all_prs)

\* the selector input file was created and the lines were written to it
InputWritten == input_file.state # "none" /\ input_file.content # <<>>

\* the empty half of C7
EmptyIsSoft ==
    (fetch_result = "Ok" /\ all_prs = <<>>)
        => /\ temp_dir = "none" /\ files = {} /\ fzf_runs = 0
           /\ pc = "done" => /\ stdout = <<<<"No pull requests found.">>>>
                             /\ exit_code = "ok"

C7_WitnessEmpty ==
    /\ pc = "done" /\ fetch_result = "Ok" /\ all_prs = <<>>
    /\ stdout = <<<<"No pull requests found.">>>>

\* C9: when the process has exited, the ephemeral directory and the preview
\* files in it no longer exist, whichever way main returned.
C9_EphemeralRemoved ==
    pc = "done" => temp_dir # "exists" /\ files = {}

\* main returned, after the directory was created, by the way named `path`
ExitPathTaken(path) ==
    /\ pc = "done" /\ temp_dir = "removed"
    /\ CASE path = "artifact" -> ~ArtifactsWritten /\ exit_code = "error"
         [] path = "input" -> ArtifactsWritten /\ fzf_runs = 0
         [] path = "selector" -> fzf_runs = 1 /\ output = None
         [] path = "decode" -> output # None /\ exit_code = "error"
         [] path = "cancel" -> output # None /\ stdout = <<<<"No PR selected.">>>>
         [] path = "selected" -> selected_pr # None

\* a failed artifact write after an earlier one had put a file in the directory
C9_Witness ==
    ExitPathTaken("artifact") /\ pr_map # <<>>

----------------------------------------------------------------------------
(* Ranking (SpecRank) *)

ArgsRank == [all : {FALSE}, author : {None, Some(<<"bob">>)},
             no_preview : {FALSE}]

\* runs over responses that differ in updated_at, state, is_draft and merged
InitRank == InitPipeline(ArgsRank) /\ InitIdleTime
FetchRank == Fetch(RankResponses)
NextRank == Pipeline \/ FetchRank
SpecRank == InitRank /\ [][NextRank]_vars

\* the same runs, over the flag combinations the service reports
FetchService == Fetch(ServiceResponses)
NextRankService == Pipeline \/ FetchService
SpecRankService == InitRank /\ [][NextRankService]_vars

\* all_prs has been sorted
Ranked == fetch_result = "Ok" /\ pc # "fetched"

\* C1: of two records with different updated_at, the one updated later comes
\* earlier in the ranked list and in the selector lines, whatever their state,
\* draft and merged flags are.
C1_RecencyFirst ==
    Ranked =>
        /\ \A j, k \in 1..Len(all_prs) :
              all_prs[j].updated_at > all_prs[k].updated_at => j < k
        /\ \A k \in 1..Len(pr_map) :
              /\ pr_map[k][2] = all_prs[k]
              /\ Split(fzf_lines[k], TAB)[1] = file_path(all_prs[k])

\* the sort moved a later-updated closed record ahead of an open one
C1_Witness ==
    /\ Ranked /\ Len(pr_map) = 2
    /\ all_prs[1].id = 2 /\ all_prs[2].id = 1
    /\ all_prs[1].updated_at > all_prs[2].updated_at
    /\ status_label(all_prs[1]) = "CLOSED" /\ status_label(all_prs[2]) = "OPEN"

\* the tier of a displayed status: OPEN and DRAFT, then MERGED, then CLOSED
StatusTier(label) ==
    CASE label \in {"OPEN", "DRAFT"} -> 0
      [] label = "MERGED" -> 1
      [] label = "CLOSED" -> 2

\* C2: of two records with equal updated_at, the one whose displayed status
\* is in the better tier (OPEN or DRAFT, then MERGED, then CLOSED) comes
\* earlier, for every combination of state, is_draft and merged.
C2_StatusTieBreak ==
    Ranked =>
        \A j, k \in 1..Len(all_prs) :
            (/\ all_prs[j].updated_at = all_prs[k].updated_at
             /\ StatusTier(status_label(all_prs[j]))
                    < StatusTier(status_label(all_prs[k]))) => j < k

----------------------------------------------------------------------------
(* Selector protocol framing (SpecFrame) *)

\* runs over responses that differ in title and repository name
InitFrame == InitPipeline(ArgsSet) /\ InitIdleTime
FetchFrame == Fetch(FrameResponses)
NextFrame == Pipeline \/ FetchFrame
SpecFrame == InitFrame /\ [][NextFrame]_vars

FieldCount == IF args.all THEN 5 ELSE 4

\* C10: the selector's input has one line per ranked record, in ranked order,
\* and each line splits on the tab into the artifact path, the time label,
\* the status, the title, and with --all the repository name; no field holds
\* a tab or a line feed.
C10_Framing ==
    InputWritten =>
        LET lines == Split(input_file.content, NL)
        IN /\ Len(lines) = Len(all_prs)
           /\ \A k \in 1..Len(lines) :
                 LET fields == Split(lines[k], TAB)
                 IN /\ Len(fields) = FieldCount
                    /\ fields[1] = file_path(all_prs[k])
                    /\ fields[3] = status_colored(all_prs[k])
                    /\ fields[4] = blue(all_prs[k].title)
                    /\ args.all => fields[5] = all_prs[k].repository_name

----------------------------------------------------------------------------
(* Relative time (SpecTime) *)

\* elapsed times: every minute of MaxWeeks weeks and of the week after them,
\* at its first and at its last second, and a few instants in the future
Elapsed ==
    {((w * 7 + d) * 24 + h) * SecondsPerHour + m * SecondsPerMinute + sec :
        w \in 0..MaxWeeks, d \in 0..6, h \in 0..23, m \in 0..59,
        sec \in {0, 59}}
    \cup {-1, -59, -60, -61, -3600, -86400}

InitTime ==
    /\ InitPipeline({[all |-> FALSE, author |-> None, no_preview |-> FALSE]})
    /\ token_set
    /\ rt_diff \in Elapsed
    /\ rt_label = <<>>

\* let label = get_relative_time(date), called when now - date is rt_diff
CallRelativeTime ==
    /\ rt_label = <<>>
    /\ rt_label' = get_relative_time(rt_diff)
    /\ UNCHANGED <<pipeline_vars, rt_diff>>

NextTime == CallRelativeTime
SpecTime == InitTime /\ [][NextTime]_vars

\* the label C8 describes for an elapsed time of d seconds
Words(n, singular, plural) ==
    <<ToString(n), " ", IF n = 1 THEN singular ELSE plural, " ", "ago">>

ExpectedLabel(d) ==
    IF d < 3600 THEN Words(d \div 60, "minute", "minutes")
    ELSE IF d < 86400 THEN Words(d \div 3600, "hour", "hours")
    ELSE IF d < 604800 THEN Words(d \div 86400, "day", "days")
    ELSE Words((d \div 86400) \div 7, "week", "weeks")

\* C8: for an elapsed time d >= 0 the label counts whole minutes below an
\* hour, whole hours below a day, whole days below a week and whole weeks
\* from there on, and the unit is singular exactly when the count is 1.
C8_RelativeTime ==
    (rt_label # <<>> /\ rt_diff >= 0) =>
        /\ rt_label = ExpectedLabel(rt_diff)
        /\ rt_diff = 0 => rt_label = <<"0", " ", "minutes", " ", "ago">>
        /\ rt_diff = 3600 => rt_label = <<"1", " ", "hour", " ", "ago">>
        /\ rt_diff = 86399 => rt_label = <<"23", " ", "hours", " ", "ago">>
        /\ rt_diff = 604799 => rt_label = <<"6", " ", "days", " ", "ago">>
        /\ rt_diff = 604800 => rt_label = <<"1", " ", "week", " ", "ago">>
        /\ rt_diff = 1209600 => rt_label = <<"2", " ", "weeks", " ", "ago">>

\* the last second before two weeks have passed reads "1 week ago"
C8_Witness ==
    rt_diff = 1209599 /\ rt_label = <<"1", " ", "week", " ", "ago">>

====
